---- MODULE Spec2Model ----
(***************************************************************************)
(* Model of trackstack's scan pipeline (src/main.py): one scan_url task    *)
(* running extract_third_party (browser observation + third-party filter), *)
(* lookup_ddg (tracker-radar lookups) and the tracker_found emission loop. *)
(***************************************************************************)
EXTENDS Integers, Sequences, FiniteSets, TLC

\* ------------------------------------------------------------------ bounds
MaxRequests == 3   \* request events delivered to the listener in one session
MaxLookupLen == 2  \* length of the domain list handed to lookup_ddg on its own
MaxSessionRequests == 2  \* distinct requests of one session among concurrent scans

\* --------------------------------------------------------------- strings
\* Python compares str values by code point.  Spell gives the code points of
\* the domain names that occur in the model.
Spell(s) ==
  CASE s = ""      -> << >>
    [] s = "a.io"  -> <<97, 46, 105, 111>>
    [] s = "ab.io" -> <<97, 98, 46, 105, 111>>
    [] s = "s.io"  -> <<115, 46, 105, 111>>
    [] s = "z.co"  -> <<122, 46, 99, 111>>

RECURSIVE SeqLess(_, _)
SeqLess(a, b) ==
  IF b = << >> THEN FALSE
  ELSE IF a = << >> THEN TRUE
  ELSE IF Head(a) # Head(b) THEN Head(a) < Head(b)
  ELSE SeqLess(Tail(a), Tail(b))

\* str.__lt__
StrLess(s, t) == SeqLess(Spell(s), Spell(t))

\* list(S) without sorted(): some listing of the set (here: largest first)
RECURSIVE unsorted_list(_)
unsorted_list(S) ==
  IF S = {} THEN << >>
  ELSE LET m == CHOOSE x \in S : \A y \in S : y = x \/ StrLess(y, x)
       IN  <<m>> \o unsorted_list(S \ {m})

\* sorted(list(S)) for a set of distinct strings
RECURSIVE sorted_list(_)
sorted_list(S) ==
  IF S = {} THEN << >>
  ELSE LET m == CHOOSE x \in S : \A y \in S : y = x \/ StrLess(x, y)
       IN  <<m>> \o sorted_list(S \ {m})

\* --------------------------------------------------------------- tldextract
Hosts == {"www.s.io", "a.io", "x.a.io", "ab.io", "cdn.z.co", "localhost", "[bad", ""}

\* hosts on which tldextract.extract raises
ExtractRaises(host) == host = "[bad"

\* tldextract.extract(u).registered_domain: public suffix + one label, "" when
\* the host has no registrable suffix
registered_domain(host) ==
  CASE host = "www.s.io" -> "s.io"
    [] host = "a.io"     -> "a.io"
    [] host = "x.a.io"   -> "a.io"
    [] host = "ab.io"    -> "ab.io"
    [] host = "cdn.z.co" -> "z.co"
    [] OTHER             -> ""

\* ------------------------------------------------------------------ inputs
\* the string handed to scan_url: a prefix followed by a host
Inputs ==
  { [prefix |-> "//",       host |-> "www.s.io"],
    [prefix |-> "http://",  host |-> "a.io"],
    [prefix |-> "",         host |-> "localhost"],
    [prefix |-> "https://", host |-> "[bad"] }

\* URLs of the requests a browser session may issue; the data: URL carries
\* text in which tldextract would find the name ab.io
RequestUrls ==
  { [scheme |-> "https:", host |-> "www.s.io"],
    [scheme |-> "https:", host |-> "x.a.io"],
    [scheme |-> "http:",  host |-> "a.io"],
    [scheme |-> "https:", host |-> "ab.io"],
    [scheme |-> "https:", host |-> "cdn.z.co"],
    [scheme |-> "http:",  host |-> "localhost"],
    [scheme |-> "https:", host |-> "[bad"],
    [scheme |-> "data:",  host |-> "ab.io"] }

\* lines 25-26: prepend https:// to an input without scheme, after lstrip("/")
normalize_url(inp) ==
  IF inp.prefix \in {"http://", "https://"}
  THEN inp
  ELSE [prefix |-> "https://", host |-> inp.host]

\* ---------------------------------------------------------- handle_request
\* lines 64-65 without the comparison with root_domain
handle_request_no_root_check(tpd, root, req) ==
  IF req.scheme = "data:" THEN tpd
  ELSE IF ExtractRaises(req.host) THEN tpd
  ELSE LET req_domain == registered_domain(req.host)
       IN  IF req_domain # "" THEN tpd \cup {req_domain} ELSE tpd

\* lines 54-69 without the data: test of lines 58-59
handle_request_no_data_check(tpd, root, req) ==
  IF ExtractRaises(req.host) THEN tpd
  ELSE LET req_domain == registered_domain(req.host)
       IN  IF req_domain # "" /\ req_domain # root
           THEN tpd \cup {req_domain}
           ELSE tpd

\* lines 54-69: the set third_party_domains after the listener handled req
handle_request(tpd, root, req) ==
  IF req.scheme = "data:" THEN tpd                        \* lines 58-59
  ELSE IF ExtractRaises(req.host) THEN tpd                \* lines 66-69
  ELSE LET req_domain == registered_domain(req.host)      \* lines 61-62
       IN  IF req_domain # "" /\ req_domain # root        \* line 64
           THEN tpd \cup {req_domain}                     \* line 65
           ELSE tpd

\* ------------------------------------------------------- metadata responses
Absent == "<absent>"

\* JSON object bodies of a 200 response: each key absent or of some shape
Bodies ==
  { [domain |-> Absent, owner |-> "{name}", categories |-> "[Advertising]", cookies |-> "Yes"],
    [domain |-> "a.io", owner |-> "{name}", categories |-> "[Advertising]", cookies |-> "Yes"],
    [domain |-> "s.io", owner |-> "{name}", categories |-> "[Advertising]", cookies |-> "Yes"],
    [domain |-> Absent, owner |-> Absent,   categories |-> Absent,          cookies |-> Absent],
    [domain |-> Absent, owner |-> "{}",     categories |-> "[]",            cookies |-> "Yes"],
    [domain |-> Absent, owner |-> "null",   categories |-> "[Advertising]", cookies |-> "Yes"],
    [domain |-> Absent, owner |-> "str",    categories |-> "[A, B]",        cookies |-> Absent] }

NoBody == [domain |-> Absent, owner |-> Absent, categories |-> Absent, cookies |-> Absent]

\* what requests.get does for one domain: a status with a body, or a raised
\* requests.RequestException (timeout, DNS failure, connection refused)
Responses ==
  { [kind |-> "status", code |-> 200, body |-> b] : b \in Bodies }
  \cup { [kind |-> "status", code |-> c, body |-> NoBody] : c \in {404, 500} }
  \cup { [kind |-> "RequestException", code |-> 0, body |-> NoBody] }

\* lines 115-116: the queried domain fills in a missing "domain" key
with_domain(data, d) ==
  IF data.domain = Absent THEN [data EXCEPT !.domain = d] ELSE data

\* lines 110-125 with the 404 branch appending too
lookup_one_keeps_404(hs, d, resp) ==
  IF resp.kind = "status" /\ resp.code \in {200, 404}
  THEN Append(hs, with_domain(resp.body, d))
  ELSE hs

\* lines 110-125: hits after the lookup of domain d was answered by resp
lookup_one(hs, d, resp) ==
  IF resp.kind = "status" /\ resp.code = 200
  THEN Append(hs, with_domain(resp.body, d))
  ELSE hs

\* ------------------------------------------------------------ event payload
\* line 309: tracker.get("owner", {}).get("name", "Unknown") raises
\* AttributeError when the owner value is not an object
owner_raises(tracker) == tracker.owner \in {"null", "str"}

\* lines 307-312: the payload of the tracker_found event
event_of(tracker) ==
  [ domain     |-> IF tracker.domain = Absent THEN "Unknown" ELSE tracker.domain,
    owner      |-> IF tracker.owner = "{name}" THEN "TrackerCo" ELSE "Unknown",
    categories |-> CASE tracker.categories = "[Advertising]" -> "Advertising"
                     [] tracker.categories = "[A, B]"        -> "A, B"
                     [] OTHER                                -> "",
    cookies    |-> IF tracker.cookies = Absent THEN "N/A" ELSE tracker.cookies ]

\* --------------------------------------------------------- the application
\* characters str.strip() removes
Whitespace == {" ", "\t", "\n"}

\* values of the "url" form field: a string as the sequence of its pieces,
\* each a whitespace character or a run of other characters; << >> is also
\* what request.form.get("url", "") gives when the field is missing
FormValues ==
  { << >>,
    << " " >>,
    << "\t", "\n" >>,
    << "//www.s.io" >>,
    << " ", "http://a.io", "\n" >> }

\* the HTTP requests routed to index
HttpRequests ==
  { [method |-> "GET", form |-> << >>],
    [method |-> "GET", form |-> << "http://a.io" >>] }
  \cup { [method |-> "POST", form |-> f] : f \in FormValues }

NoRequest == [method |-> "none", form |-> << >>]

RECURSIVE lstrip(_)
lstrip(s) ==
  IF s # << >> /\ Head(s) \in Whitespace THEN lstrip(Tail(s)) ELSE s

RECURSIVE rstrip(_)
rstrip(s) ==
  IF s # << >> /\ s[Len(s)] \in Whitespace
  THEN rstrip(SubSeq(s, 1, Len(s) - 1))
  ELSE s

\* str.strip(): leading and trailing whitespace removed
strip(s) == rstrip(lstrip(s))

EmptyUrlError == "URL cannot be empty. Please enter a URL."

\* lines 293-299 with the form value used as received
index_no_strip(req) ==
  IF req.method = "POST"
  THEN LET url_to_scan == req.form
       IN  IF url_to_scan = << >>
           THEN [error |-> EmptyUrlError, start |-> << >>]
           ELSE [error |-> "None", start |-> << url_to_scan >>]
  ELSE [error |-> "None", start |-> << >>]

\* lines 293-300: the error index renders and the arguments of the
\* start_background_task calls it makes
index(req) ==
  IF req.method = "POST"                                        \* line 294
  THEN LET url_to_scan == strip(req.form)                       \* line 295
       IN  IF url_to_scan = << >>                               \* line 296
           THEN [error |-> EmptyUrlError, start |-> << >>]      \* line 297
           ELSE [error |-> "None", start |-> << url_to_scan >>] \* line 299
  ELSE [error |-> "None", start |-> << >>]                      \* line 293

\* the string scan_url receives, read as a prefix followed by a host; text
\* that is no URL of the model has no registrable domain
parse_input(arg) ==
  IF arg = << "//www.s.io" >> THEN [prefix |-> "//", host |-> "www.s.io"]
  ELSE IF arg = << "http://a.io" >> THEN [prefix |-> "http://", host |-> "a.io"]
  ELSE [prefix |-> "", host |-> ""]

\* the background tasks index can start
Scans == {1, 2}

\* a task that was not started: the locals of scan_url, extract_third_party
\* and lookup_ddg of one call
idle_task ==
  [ pc      |-> "idle",
    input   |-> [prefix |-> "", host |-> ""],
    root    |-> "",          \* root_domain
    session |-> "none",      \* browser, context and page of the call
    seen    |-> {},          \* the requests the session of the call issued
    tpd     |-> {},          \* third_party_domains
    domains |-> << >>,       \* the list extract_third_party returned
    nlook   |-> 0,           \* lookups answered
    hits    |-> << >>,
    nsent   |-> 0,           \* events handed to socketio.emit
    ended   |-> "running" ]

\* a module-level set shared by every call
set_of_global(t) == 1

\* line 38: third_party_domains is a local of the call, and handle_request
\* (lines 54-69) is a closure over the set of the call that defined it
set_of(t) == t

\* requests the sessions of concurrent scans issue
WebRequestUrls ==
  { [scheme |-> "https:", host |-> "www.s.io"],
    [scheme |-> "https:", host |-> "x.a.io"],
    [scheme |-> "https:", host |-> "cdn.z.co"] }

\* answers to the lookups of concurrent scans
WebResponses ==
  { r \in Responses :
      \/ r.kind = "status" /\ r.code = 404
      \/ /\ r.kind = "status" /\ r.code = 200
         /\ r.body.domain = Absent
         /\ r.body.owner \in {"{name}", "null"}
         /\ r.body.categories = "[Advertising]" }

\* ------------------------------------------------------------------- state
VARIABLES
  input,                \* the string scan_url was started with
  url,                  \* extract_third_party: url after lines 25-26
  root_domain,          \* extract_third_party: root_domain ("" while unset)
  pc,                   \* position of the scan task
  browser,              \* "None", "open", "disconnected" or "closed"
  context,              \* "unbound", "open" or "closed"
  page,                 \* "unbound", "open" or "closed"
  listener,             \* TRUE once page.on("request", handle_request) ran
  seen,                 \* request URLs the session delivered to the listener
  nreq,                 \* number of requests the session issued
  third_party_domains,  \* extract_third_party: the accumulating set
  caught,               \* what the except clause of line 84 caught
  domains,              \* scan_url: the list extract_third_party returned
  lookups,              \* the requests.get calls made, with their responses
  hits,                 \* lookup_ddg: hits
  emitted,              \* payloads of the tracker_found events emitted
  exc,                  \* exception propagating out of the scan's stages
  outcome,              \* how scan_url ended: "running", "returned", "logged", "raised"
  last_request,         \* index: the HTTP request handled last
  error,                \* index: the error rendered for it
  started,              \* arguments of the start_background_task calls, in order
  task,                 \* the background scan tasks: each one's own locals
  channel               \* the events given to socketio.emit, all scans together

\* the state of the application: the request handler and its background tasks
web_vars == << last_request, error, started, task, channel >>

\* the state of the single scan
scan_vars == << input, url, root_domain, pc, browser, context, page, listener,
                seen, nreq, third_party_domains, caught, domains, lookups,
                hits, emitted, exc, outcome >>

vars == << input, url, root_domain, pc, browser, context, page, listener, seen,
           nreq, third_party_domains, caught, domains, lookups, hits, emitted,
           exc, outcome, last_request, error, started, task, channel >>

\* the exceptions of the model are all subclasses of Exception
ExceptionClasses ==
  {"UnboundLocalError", "PlaywrightError", "AttributeError", "TypeError", "ValueError"}

\* the application after start-up: no request handled, no task started
WebIdle ==
  /\ last_request = NoRequest
  /\ error = "None"
  /\ started = << >>
  /\ task = [t \in Scans |-> idle_task]
  /\ channel = << >>

Init ==
  /\ WebIdle
  /\ input \in Inputs
  /\ url = input
  /\ root_domain = ""
  /\ pc = "start"
  /\ browser = "None"
  /\ context = "unbound"
  /\ page = "unbound"
  /\ listener = FALSE
  /\ seen = {}
  /\ nreq = 0
  /\ third_party_domains = {}
  /\ caught = "none"
  /\ domains = << >>
  /\ lookups = << >>
  /\ hits = << >>
  /\ emitted = << >>
  /\ exc = "none"
  /\ outcome = "running"

\* --------------------------------------------------- extract_third_party
\* lines 25-38 without the return of lines 31-33
NormalizeNoRootCheck ==
  /\ pc = "start"
  /\ url' = normalize_url(input)
  /\ IF ExtractRaises(url'.host)
     THEN /\ root_domain' = ""
          /\ pc' = "extracted"
     ELSE /\ root_domain' = registered_domain(url'.host)
          /\ pc' = "launch"
  /\ UNCHANGED << input, browser, context, page, listener, seen, nreq,
                  third_party_domains, caught, domains, lookups, hits, emitted,
                  exc, outcome >>
  /\ UNCHANGED web_vars

\* lines 25-38: the scheme is prepended, the root domain determined; without a
\* root domain (lines 31-36) the function returns [] at once
Normalize ==
  /\ pc = "start"
  /\ url' = normalize_url(input)
  /\ IF ExtractRaises(url'.host)
     THEN /\ root_domain' = ""
          /\ pc' = "extracted"
     ELSE /\ root_domain' = registered_domain(url'.host)
          /\ pc' = IF root_domain' = "" THEN "extracted" ELSE "launch"
  /\ UNCHANGED << input, browser, context, page, listener, seen, nreq,
                  third_party_domains, caught, domains, lookups, hits, emitted,
                  exc, outcome >>
  /\ UNCHANGED web_vars

\* line 45: p.chromium.launch; a raised error is caught at line 84
Launch(ok) ==
  /\ pc = "launch"
  /\ IF ok
     THEN browser' = "open" /\ pc' = "new_context" /\ caught' = caught
     ELSE browser' = browser /\ pc' = "finally" /\ caught' = "launch"
  /\ UNCHANGED << input, url, root_domain, context, page, listener, seen, nreq,
                  third_party_domains, domains, lookups, hits, emitted, exc,
                  outcome >>
  /\ UNCHANGED web_vars

\* lines 47-50: browser.new_context
NewContext(ok) ==
  /\ pc = "new_context"
  /\ IF ok
     THEN context' = "open" /\ pc' = "new_page" /\ caught' = caught
     ELSE context' = context /\ pc' = "finally" /\ caught' = "new_context"
  /\ UNCHANGED << input, url, root_domain, browser, page, listener, seen, nreq,
                  third_party_domains, domains, lookups, hits, emitted, exc,
                  outcome >>
  /\ UNCHANGED web_vars

\* line 51: context.new_page
NewPage(ok) ==
  /\ pc = "new_page"
  /\ IF ok
     THEN page' = "open" /\ pc' = "page_on" /\ caught' = caught
     ELSE page' = page /\ pc' = "finally" /\ caught' = "new_page"
  /\ UNCHANGED << input, url, root_domain, browser, context, listener, seen,
                  nreq, third_party_domains, domains, lookups, hits, emitted,
                  exc, outcome >>
  /\ UNCHANGED web_vars

\* line 71 moved behind line 77: navigation starts with no listener attached
PageOnAfterGoto ==
  /\ pc = "page_on"
  /\ pc' = "goto"
  /\ UNCHANGED << input, url, root_domain, browser, context, page, listener,
                  seen, nreq, third_party_domains, caught, domains, lookups,
                  hits, emitted, exc, outcome >>
  /\ UNCHANGED web_vars

\* line 71: page.on("request", handle_request)
PageOn ==
  /\ pc = "page_on"
  /\ listener' = TRUE
  /\ pc' = "goto"
  /\ UNCHANGED << input, url, root_domain, browser, context, page, seen, nreq,
                  third_party_domains, caught, domains, lookups, hits, emitted,
                  exc, outcome >>
  /\ UNCHANGED web_vars

\* lines 54-69: during page.goto the session issues a request; the listener,
\* when one is attached, is given it and handles it
Request(req) ==
  /\ pc = "goto"
  /\ nreq < MaxRequests
  /\ nreq' = nreq + 1
  /\ IF listener
     THEN /\ seen' = seen \cup {req}
          /\ third_party_domains' =
               handle_request(third_party_domains, root_domain, req)
     ELSE UNCHANGED << seen, third_party_domains >>
  /\ UNCHANGED << input, url, root_domain, pc, browser, context, page, listener,
                  caught, domains, lookups, hits, emitted, exc, outcome >>
  /\ UNCHANGED web_vars

\* lines 77-86 with a timeout discarding what was captured
GotoReturnDiscardOnTimeout(how) ==
  /\ pc = "goto"
  /\ pc' = "finally"
  /\ caught' = CASE how = "ok" -> caught [] how = "crash" -> "error" [] OTHER -> how
  /\ browser' = IF how = "crash" THEN "disconnected" ELSE browser
  /\ third_party_domains' = IF how = "timeout" THEN {} ELSE third_party_domains
  /\ UNCHANGED << input, url, root_domain, context, page, listener,
                  seen, nreq, domains, lookups, hits, emitted, exc, outcome >>
  /\ UNCHANGED web_vars

\* lines 77-86 with a navigation error discarding what was captured
GotoReturnDiscardOnError(how) ==
  /\ pc = "goto"
  /\ pc' = "finally"
  /\ caught' = CASE how = "ok" -> caught [] how = "crash" -> "error" [] OTHER -> how
  /\ browser' = IF how = "crash" THEN "disconnected" ELSE browser
  /\ third_party_domains' = IF how \in {"error", "crash"} THEN {} ELSE third_party_domains
  /\ UNCHANGED << input, url, root_domain, context, page, listener,
                  seen, nreq, domains, lookups, hits, emitted, exc, outcome >>
  /\ UNCHANGED web_vars

\* lines 77-86: page.goto returns (network idle), or raises TimeoutError or
\* another error; either exception is caught at line 84 and only printed.
\* "crash" is the navigation error of a browser that died: it is no longer
\* connected afterwards
GotoReturn(how) ==
  /\ pc = "goto"
  /\ pc' = "finally"
  /\ caught' = CASE how = "ok" -> caught [] how = "crash" -> "error" [] OTHER -> how
  /\ browser' = IF how = "crash" THEN "disconnected" ELSE browser
  /\ UNCHANGED << input, url, root_domain, context, page, listener,
                  seen, nreq, third_party_domains, domains, lookups, hits,
                  emitted, exc, outcome >>
  /\ UNCHANGED web_vars

\* lines 87-94 without the context.close() of lines 90-91
FinallyNoContextClose(fault) ==
  /\ pc = "finally"
  /\ fault = "browser" => browser = "open"
  /\ IF page = "unbound"
     THEN /\ fault = "none"
          /\ exc' = "UnboundLocalError"
          /\ pc' = "scan_except"
          /\ UNCHANGED << page, context, browser >>
     ELSE /\ page' = IF fault = "page" THEN page ELSE "closed"
          /\ context' = context
          /\ browser' = IF fault = "none" /\ browser = "open" THEN "closed" ELSE browser
          /\ exc' = IF fault = "none" THEN exc ELSE "PlaywrightError"
          /\ pc' = IF fault = "none" THEN "return" ELSE "scan_except"
  /\ UNCHANGED << input, url, root_domain, listener, seen, nreq,
                  third_party_domains, caught, domains, lookups, hits, emitted,
                  outcome >>
  /\ UNCHANGED web_vars

\* lines 87-94 without the browser.close() of lines 92-93
FinallyNoBrowserClose(fault) ==
  /\ pc = "finally"
  /\ fault = "browser" => browser = "open"
  /\ IF page = "unbound"
     THEN /\ fault = "none"
          /\ exc' = "UnboundLocalError"
          /\ pc' = "scan_except"
          /\ UNCHANGED << page, context, browser >>
     ELSE /\ page' = IF fault = "page" THEN page ELSE "closed"
          /\ context' = IF fault \in {"page", "context"} THEN context ELSE "closed"
          /\ browser' = browser
          /\ exc' = IF fault = "none" THEN exc ELSE "PlaywrightError"
          /\ pc' = IF fault = "none" THEN "return" ELSE "scan_except"
  /\ UNCHANGED << input, url, root_domain, listener, seen, nreq,
                  third_party_domains, caught, domains, lookups, hits, emitted,
                  outcome >>
  /\ UNCHANGED web_vars

\* lines 87-94: the finally block.  Reading page before line 51 assigned it
\* raises UnboundLocalError; fault names the close() call that raises, if any.
\* browser.close() is called only on a browser that is still connected
Finally(fault) ==
  /\ pc = "finally"
  /\ fault = "browser" => browser = "open"
  /\ IF page = "unbound"
     THEN /\ fault = "none"
          /\ exc' = "UnboundLocalError"
          /\ pc' = "scan_except"
          /\ UNCHANGED << page, context, browser >>
     ELSE /\ page' = IF fault = "page" THEN page ELSE "closed"
          /\ context' = IF fault \in {"page", "context"} THEN context ELSE "closed"
          /\ browser' = IF fault = "none" /\ browser = "open" THEN "closed" ELSE browser
          /\ exc' = IF fault = "none" THEN exc ELSE "PlaywrightError"
          /\ pc' = IF fault = "none" THEN "return" ELSE "scan_except"
  /\ UNCHANGED << input, url, root_domain, listener, seen, nreq,
                  third_party_domains, caught, domains, lookups, hits, emitted,
                  outcome >>
  /\ UNCHANGED web_vars

\* line 96 returning list(third_party_domains) unsorted
ExtractReturnUnsorted ==
  /\ pc = "return"
  /\ domains' = unsorted_list(third_party_domains)
  /\ pc' = "extracted"
  /\ UNCHANGED << input, url, root_domain, browser, context, page, listener,
                  seen, nreq, third_party_domains, caught, lookups, hits,
                  emitted, exc, outcome >>
  /\ UNCHANGED web_vars

\* lines 96 and 304: return sorted(list(third_party_domains))
ExtractReturn ==
  /\ pc = "return"
  /\ domains' = sorted_list(third_party_domains)
  /\ pc' = "extracted"
  /\ UNCHANGED << input, url, root_domain, browser, context, page, listener,
                  seen, nreq, third_party_domains, caught, lookups, hits,
                  emitted, exc, outcome >>
  /\ UNCHANGED web_vars

\* ------------------------------------------------------------- lookup_ddg
\* lines 305 and 102-104: scan_url hands the list to lookup_ddg, which returns
\* at once on an empty list
LookupEntry ==
  /\ pc = "extracted"
  /\ hits' = << >>
  /\ pc' = IF domains = << >> THEN "emit" ELSE "lookup"
  /\ UNCHANGED << input, url, root_domain, browser, context, page, listener,
                  seen, nreq, third_party_domains, caught, domains, lookups, emitted, exc,
                  outcome >>
  /\ UNCHANGED web_vars

\* lines 107-125: one iteration of the loop, requests.get answered by resp
Lookup(resp) ==
  /\ pc = "lookup"
  /\ Len(lookups) < Len(domains)
  /\ LET d == domains[Len(lookups) + 1]
     IN  /\ lookups' = Append(lookups, [domain |-> d, resp |-> resp])
         /\ hits' = lookup_one(hits, d, resp)
  /\ UNCHANGED << input, url, root_domain, pc, browser, context, page, listener,
                  seen, nreq, third_party_domains, caught, domains, emitted, exc,
                  outcome >>
  /\ UNCHANGED web_vars

\* 200 responses whose body is no JSON object: text that is no JSON at all, or
\* JSON of another type (an array, a string, a number, null)
MalformedShapes == {"invalid_json", "non_object"}

\* lines 111-117 on a 200 response with a malformed body.  r.json() raises
\* JSONDecodeError on text that is no JSON: a RequestException in requests 2.27
\* and later (caught at line 123), a plain ValueError before (not caught).  On
\* JSON that is no object lines 115-116 raise TypeError, which line 123 does
\* not catch.  An uncaught exception leaves lookup_ddg for line 313.
LookupMalformed(shape, json_error_is_request_exception) ==
  /\ pc = "lookup"
  /\ Len(lookups) < Len(domains)
  /\ LET d == domains[Len(lookups) + 1]
         resp == [kind |-> "malformed", code |-> 200, body |-> NoBody, shape |-> shape]
     IN  lookups' = Append(lookups, [domain |-> d, resp |-> resp])
  /\ IF shape = "invalid_json" /\ json_error_is_request_exception
     THEN UNCHANGED << pc, exc >>
     ELSE /\ pc' = "scan_except"
          /\ exc' = IF shape = "invalid_json" THEN "ValueError" ELSE "TypeError"
  /\ UNCHANGED << input, url, root_domain, browser, context, page, listener,
                  seen, nreq, third_party_domains, caught, domains, hits,
                  emitted, outcome >>
  /\ UNCHANGED web_vars

\* lines 126-127 reached after the first iteration already
LookupReturnEarly ==
  /\ pc = "lookup"
  /\ Len(lookups) >= 1
  /\ pc' = "emit"
  /\ UNCHANGED << input, url, root_domain, browser, context, page, listener,
                  seen, nreq, third_party_domains, caught, domains, lookups,
                  hits, emitted, exc, outcome >>
  /\ UNCHANGED web_vars

\* lines 126-127: the loop is exhausted and hits is returned to scan_url
LookupReturn ==
  /\ pc = "lookup"
  /\ Len(lookups) = Len(domains)
  /\ pc' = "emit"
  /\ UNCHANGED << input, url, root_domain, browser, context, page, listener,
                  seen, nreq, third_party_domains, caught, domains, lookups,
                  hits, emitted, exc, outcome >>
  /\ UNCHANGED web_vars

\* ---------------------------------------------------------------- scan_url
\* lines 306-312: one iteration of the emission loop; building the payload may
\* raise, which leaves the loop for the handler of line 313
Emit ==
  /\ pc = "emit"
  /\ Len(emitted) < Len(hits)
  /\ LET tracker == hits[Len(emitted) + 1]
     IN  IF owner_raises(tracker)
         THEN /\ exc' = "AttributeError"
              /\ pc' = "scan_except"
              /\ emitted' = emitted
         ELSE /\ emitted' = Append(emitted, event_of(tracker))
              /\ UNCHANGED << exc, pc >>
  /\ UNCHANGED << input, url, root_domain, browser, context, page, listener,
                  seen, nreq, third_party_domains, caught, domains, lookups,
                  hits, outcome >>
  /\ UNCHANGED web_vars

\* line 312 to the end of the function: the loop is exhausted
ScanReturn ==
  /\ pc = "emit"
  /\ Len(emitted) = Len(hits)
  /\ pc' = "done"
  /\ outcome' = "returned"
  /\ UNCHANGED << input, url, root_domain, browser, context, page, listener,
                  seen, nreq, third_party_domains, caught, domains, lookups,
                  hits, emitted, exc >>
  /\ UNCHANGED web_vars

\* lines 313-314: except Exception prints the error; anything else propagates
ScanExcept ==
  /\ pc = "scan_except"
  /\ pc' = "done"
  /\ outcome' = IF exc \in ExceptionClasses THEN "logged" ELSE "raised"
  /\ UNCHANGED << input, url, root_domain, browser, context, page, listener,
                  seen, nreq, third_party_domains, caught, domains, lookups, hits, emitted,
                  exc >>
  /\ UNCHANGED web_vars

Next ==
  \/ Normalize
  \/ \E ok \in BOOLEAN : Launch(ok)
  \/ \E ok \in BOOLEAN : NewContext(ok)
  \/ \E ok \in BOOLEAN : NewPage(ok)
  \/ PageOn
  \/ \E req \in RequestUrls : Request(req)
  \/ \E how \in {"ok", "timeout", "error", "crash"} : GotoReturn(how)
  \/ \E fault \in {"none", "page", "context", "browser"} : Finally(fault)
  \/ ExtractReturn
  \/ LookupEntry
  \/ \E resp \in Responses : Lookup(resp)
  \/ LookupReturn
  \/ Emit
  \/ ScanReturn
  \/ ScanExcept

Spec == Init /\ [][Next]_vars

\* ----------------------------------------------- lookup_ddg called on its own
DomainNames == {"a.io", "ab.io", "s.io", "z.co"}

RECURSIVE SeqsUpTo(_, _)
SeqsUpTo(S, n) ==
  IF n = 0 THEN {<< >>}
  ELSE LET shorter == SeqsUpTo(S, n - 1)
       IN  shorter \cup { Append(q, x) : q \in shorter, x \in S }

\* lookup_ddg(domains) for any list of names, sorted or not, repeated or not
InitLookup ==
  /\ WebIdle
  /\ input = [prefix |-> "//", host |-> "www.s.io"]
  /\ url = input
  /\ root_domain = ""
  /\ pc = "extracted"
  /\ browser = "None"
  /\ context = "unbound"
  /\ page = "unbound"
  /\ listener = FALSE
  /\ seen = {}
  /\ nreq = 0
  /\ third_party_domains = {}
  /\ caught = "none"
  /\ domains \in SeqsUpTo(DomainNames, MaxLookupLen)
  /\ lookups = << >>
  /\ hits = << >>
  /\ emitted = << >>
  /\ exc = "none"
  /\ outcome = "running"

NextLookup ==
  \/ LookupEntry
  \/ \E resp \in Responses : Lookup(resp)
  \/ LookupReturn

SpecLookup == InitLookup /\ [][NextLookup]_vars

\* lookup_ddg over responses of every kind, malformed 200 bodies included,
\* called from scan_url
NextMalformed ==
  \/ LookupEntry
  \/ \E resp \in Responses : Lookup(resp)
  \/ \E shape \in MalformedShapes, b \in BOOLEAN : LookupMalformed(shape, b)
  \/ LookupReturn
  \/ ScanExcept

SpecMalformed == InitLookup /\ [][NextMalformed]_vars

\* ------------------------------------------------- index and its scan tasks
\* lines 291-300: index handles one HTTP request; start_background_task
\* creates the task and index returns while the task has not run
Index(req) ==
  LET res == index(req)
      n == Len(started) + 1
  IN  /\ Len(started) + Len(res.start) <= Cardinality(Scans)
      /\ last_request' = req
      /\ error' = res.error
      /\ started' = started \o res.start
      /\ task' = IF res.start = << >>
                 THEN task
                 ELSE [task EXCEPT ![n] = [idle_task EXCEPT
                                             !.pc = "start",
                                             !.input = parse_input(res.start[1])]]
      /\ UNCHANGED channel
      /\ UNCHANGED scan_vars

\* lines 25-38 in task t
TNormalize(t) ==
  /\ task[t].pc = "start"
  /\ LET u == normalize_url(task[t].input)
         root == IF ExtractRaises(u.host) THEN "" ELSE registered_domain(u.host)
     IN  task' = IF root = ""
                 THEN [task EXCEPT ![t].pc = "lookup"]
                 ELSE [task EXCEPT ![t].pc = "launch",
                                   ![t].root = root,
                                   ![set_of(t)].tpd = {}]
  /\ UNCHANGED << last_request, error, started, channel >>
  /\ UNCHANGED scan_vars

\* lines 41-71 in task t: its own browser, context and page, and the listener
\* on that page; a failure ends the task at lines 313-314
TOpen(t, ok) ==
  /\ task[t].pc = "launch"
  /\ task' = IF ok
             THEN [task EXCEPT ![t].pc = "goto", ![t].session = "open"]
             ELSE [task EXCEPT ![t].pc = "done", ![t].ended = "logged"]
  /\ UNCHANGED << last_request, error, started, channel >>
  /\ UNCHANGED scan_vars

\* lines 54-69: the page of task t issues a request and its listener runs
TRequest(t, req) ==
  /\ task[t].pc = "goto"
  /\ req \notin task[t].seen
  /\ Cardinality(task[t].seen) < MaxSessionRequests
  /\ task' = [task EXCEPT
                ![t].seen = @ \cup {req},
                ![set_of(t)].tpd = handle_request(@, task[t].root, req)]
  /\ UNCHANGED << last_request, error, started, channel >>
  /\ UNCHANGED scan_vars

\* lines 77-96 in task t: navigation ends, the session is closed and the
\* sorted list returned; a close() that raises ends the task at lines 313-314
TClose(t, ok) ==
  /\ task[t].pc = "goto"
  /\ task' = IF ok
             THEN [task EXCEPT ![t].pc = "lookup",
                               ![t].session = "closed",
                               ![t].domains = sorted_list(task[set_of(t)].tpd)]
             ELSE [task EXCEPT ![t].pc = "done", ![t].ended = "logged"]
  /\ UNCHANGED << last_request, error, started, channel >>
  /\ UNCHANGED scan_vars

\* lines 107-125 in task t: one lookup answered
TLookup(t, resp) ==
  /\ task[t].pc = "lookup"
  /\ task[t].nlook < Len(task[t].domains)
  /\ task' = [task EXCEPT
                ![t].nlook = @ + 1,
                ![t].hits = lookup_one(@, task[t].domains[task[t].nlook + 1], resp)]
  /\ UNCHANGED << last_request, error, started, channel >>
  /\ UNCHANGED scan_vars

\* line 127 in task t
TLookupReturn(t) ==
  /\ task[t].pc = "lookup"
  /\ task[t].nlook = Len(task[t].domains)
  /\ task' = [task EXCEPT ![t].pc = "emit"]
  /\ UNCHANGED << last_request, error, started, channel >>
  /\ UNCHANGED scan_vars

\* lines 306-312 with one slot for the latest event in place of a stream
TEmitOverwrite(t) ==
  /\ task[t].pc = "emit"
  /\ task[t].nsent < Len(task[t].hits)
  /\ LET tracker == task[t].hits[task[t].nsent + 1]
     IN  IF owner_raises(tracker)
         THEN /\ task' = [task EXCEPT ![t].pc = "done", ![t].ended = "logged"]
              /\ UNCHANGED channel
         ELSE /\ task' = [task EXCEPT ![t].nsent = @ + 1]
              /\ channel' = << [scan |-> t, event |-> event_of(tracker)] >>
  /\ UNCHANGED << last_request, error, started >>
  /\ UNCHANGED scan_vars

\* lines 306-312 in task t: the next tracker of its list is emitted on the
\* one channel every task emits on; the scan field records the emitting task
\* for the properties and is no part of the event
TEmit(t) ==
  /\ task[t].pc = "emit"
  /\ task[t].nsent < Len(task[t].hits)
  /\ LET tracker == task[t].hits[task[t].nsent + 1]
     IN  IF owner_raises(tracker)
         THEN /\ task' = [task EXCEPT ![t].pc = "done", ![t].ended = "logged"]
              /\ UNCHANGED channel
         ELSE /\ task' = [task EXCEPT ![t].nsent = @ + 1]
              /\ channel' = Append(channel, [scan |-> t, event |-> event_of(tracker)])
  /\ UNCHANGED << last_request, error, started >>
  /\ UNCHANGED scan_vars

\* the for loop of line 306 is exhausted in task t
TScanReturn(t) ==
  /\ task[t].pc = "emit"
  /\ task[t].nsent = Len(task[t].hits)
  /\ task' = [task EXCEPT ![t].pc = "done", ![t].ended = "returned"]
  /\ UNCHANGED << last_request, error, started, channel >>
  /\ UNCHANGED scan_vars

\* the application serving requests while its tasks run
InitWeb ==
  /\ WebIdle
  /\ input = [prefix |-> "//", host |-> "www.s.io"]
  /\ url = input
  /\ root_domain = ""
  /\ pc = "start"
  /\ browser = "None"
  /\ context = "unbound"
  /\ page = "unbound"
  /\ listener = FALSE
  /\ seen = {}
  /\ nreq = 0
  /\ third_party_domains = {}
  /\ caught = "none"
  /\ domains = << >>
  /\ lookups = << >>
  /\ hits = << >>
  /\ emitted = << >>
  /\ exc = "none"
  /\ outcome = "running"

NextWeb ==
  \/ \E req \in HttpRequests : Index(req)
  \/ \E t \in Scans : TNormalize(t)
  \/ \E t \in Scans, ok \in BOOLEAN : TOpen(t, ok)
  \/ \E t \in Scans, req \in WebRequestUrls : TRequest(t, req)
  \/ \E t \in Scans, ok \in BOOLEAN : TClose(t, ok)
  \/ \E t \in Scans, resp \in WebResponses : TLookup(t, resp)
  \/ \E t \in Scans : TLookupReturn(t)
  \/ \E t \in Scans : TEmit(t)
  \/ \E t \in Scans : TScanReturn(t)

SpecWeb == InitWeb /\ [][NextWeb]_vars

\* ------------------------------------------------------------ properties
Range(q) == { q[k] : k \in 1..Len(q) }

StrictlyIncreasing(q) ==
  \A i, j \in 1..Len(q) : i < j => StrLess(q[i], q[j])

\* the registrable domains, other than root and "", of the requests in reqs
\* that are no data: URLs and whose domain can be extracted
ThirdPartyOf(reqs, root) ==
  { registered_domain(r.host) :
      r \in { q \in reqs : q.scheme # "data:" /\ ~ExtractRaises(q.host) } }
  \ {root, ""}

\* extract_third_party has returned its list to scan_url
ObserverReturned ==
  \/ pc \in {"extracted", "lookup", "emit"}
  \/ pc \in {"scan_except", "done"} /\ exc \in {"none", "AttributeError"}

\* a close() call of the finally block raised
TeardownRaised == exc = "PlaywrightError"

\* the domains of the lookups issued so far, in order
LookedUp == [k \in 1..Len(lookups) |-> lookups[k].domain]

Is200(l) == l.resp.kind = "status" /\ l.resp.code = 200

\* C1: whatever requests the listener has been given, the accumulated set and
\* the returned list contain neither the root domain nor the empty string, and
\* the set holds exactly the third-party domains of the requests seen: a
\* request whose domain is the root domain or empty contributes nothing.
C1_RootNeverReturned ==
  /\ root_domain \notin third_party_domains
  /\ "" \notin third_party_domains
  /\ \A k \in 1..Len(domains) : domains[k] \notin {root_domain, ""}
  /\ third_party_domains = ThirdPartyOf(seen, root_domain)

\* C1 witness: a list was returned after a first-party request was seen
C1_Witness ==
  /\ pc = "extracted"
  /\ domains # << >>
  /\ \E r \in seen : ~ExtractRaises(r.host) /\ registered_domain(r.host) = root_domain
  /\ \E r \in seen : ~ExtractRaises(r.host) /\ r.scheme # "data:"
                     /\ registered_domain(r.host) = ""

\* C2: the returned list is strictly increasing in code-point order and lists
\* exactly the third-party domains of the set of requests seen, however often
\* and in whatever order they arrived.
C2_SortedNoDuplicates ==
  ObserverReturned =>
    /\ StrictlyIncreasing(domains)
    /\ Range(domains) = ThirdPartyOf(seen, root_domain)

\* C2 witness: two domains returned after more requests than domains
C2_Witness ==
  /\ pc = "extracted"
  /\ Len(domains) = 2
  /\ nreq = 3

\* C3: lookup_ddg looks up the input domains one by one in input order, and
\* once it has returned it has looked up every one of them and hits holds
\* exactly the bodies of the 200 responses, in input order; a 404, another
\* status and a transport failure add nothing.
C3_OneLookupPerDomain ==
  /\ \A k \in 1..Len(lookups) : k <= Len(domains) /\ lookups[k].domain = domains[k]
  /\ pc = "emit" =>
       /\ LookedUp = domains
       /\ LET ok == SelectSeq(lookups, Is200)
          IN  hits = [k \in 1..Len(ok) |-> with_domain(ok[k].resp.body, ok[k].domain)]

\* C3 witness: a transport failure followed by a 200, both processed
C3_Witness ==
  /\ pc = "emit"
  /\ Len(lookups) = 2
  /\ lookups[1].resp.kind = "RequestException"
  /\ Is200(lookups[2])
  /\ Len(hits) = 1

C5_EventsIncreasing ==
  \A i, j \in 1..Len(emitted) :
    i < j => StrLess(emitted[i].domain, emitted[j].domain)

\* C6 as claimed: the domain of every Finding and of every event is in the
\* list extract_third_party returned and differs from the root domain.
C6_FindingDomainInSet ==
  /\ \A k \in 1..Len(hits) :
       hits[k].domain \in Range(domains) /\ hits[k].domain # root_domain
  /\ \A k \in 1..Len(emitted) :
       emitted[k].domain \in Range(domains) /\ emitted[k].domain # root_domain

\* C7 as claimed: a finished scan has emitted one event for every Finding that
\* resolved, whatever the shape of its optional fields.
C7_OneEventPerFinding ==
  pc = "done" =>
    /\ Len(emitted) = Len(hits)
    /\ \A k \in 1..Len(hits) : emitted[k] = event_of(hits[k])

C10_EarlyFailureEndsQuietly ==
  /\ (pc # "start" /\ root_domain = "") =>
       /\ browser = "None" /\ context = "unbound" /\ page = "unbound"
       /\ lookups = << >> /\ emitted = << >>
       /\ pc = "done" => outcome = "returned"
  /\ caught \in {"launch", "new_context", "new_page"} =>
       /\ lookups = << >> /\ emitted = << >>
       /\ pc = "done" => outcome = "logged"
  /\ outcome # "raised"

\* C10 witness: a scan whose context creation failed has ended
C10_Witness ==
  /\ caught = "new_context"
  /\ pc = "done"
  /\ outcome = "logged"

\* a lookup answered by a 200 whose body is malformed
IsMalformed(l) == l.resp.kind = "malformed"

\* C11 as claimed: a malformed 200 body is skipped like a failed lookup: no
\* exception leaves lookup_ddg, every domain is still looked up, and hits
\* holds the Findings of the well-formed 200 responses.
C11_MalformedSkipped ==
  (\E k \in 1..Len(lookups) : IsMalformed(lookups[k])) =>
    /\ pc \notin {"scan_except", "done"}
    /\ exc = "none"
    /\ pc = "emit" =>
         /\ LookedUp = domains
         /\ LET ok == SelectSeq(lookups, Is200)
            IN  hits = [k \in 1..Len(ok) |-> with_domain(ok[k].resp.body, ok[k].domain)]

\* C12 as claimed: a close() call that raises during teardown is not
\* propagated: the list captured is still returned and every domain of it is
\* looked up.
C12_TeardownFailureKeepsResults ==
  /\ TeardownRaised => pc # "scan_except"
  /\ (TeardownRaised /\ pc = "done") =>
       /\ Range(domains) = third_party_domains
       /\ LookedUp = domains

\* C15: navigation is in progress only with the listener attached, and a
\* session that has issued requests has had every one of them handed to the
\* listener (none was issued while no listener was attached).
C15_ListenerBeforeNavigation ==
  /\ pc = "goto" => listener
  /\ nreq > 0 => listener /\ seen # {} /\ Cardinality(seen) <= nreq

\* C15 witness: navigation in progress, two requests issued and both seen
C15_Witness ==
  /\ pc = "goto"
  /\ nreq = 2
  /\ Cardinality(seen) = 2

\* C16: once the page exists, whether navigation succeeded, timed out or
\* raised, extract_third_party returns only after page and context were
\* closed and the browser was closed (or had already gone).
C16_ClosedOnEveryNavigationExit ==
  (page # "unbound" /\ (pc = "return" \/ ObserverReturned)) =>
    /\ caught \in {"none", "timeout", "error"}
    /\ page = "closed"
    /\ context = "closed"
    /\ browser \in {"closed", "disconnected"}

\* C16 witness: the observer returned after a navigation error, all closed
C16_Witness ==
  /\ pc = "extracted"
  /\ caught = "error"
  /\ page = "closed" /\ context = "closed" /\ browser = "closed"

\* C17 as claimed: after a failure while launching, the cleanup block runs to
\* completion and leaves no started resource open.
C17_CleanupCompletesAfterLaunchFailure ==
  (caught \in {"launch", "new_context", "new_page"} /\ pc # "finally") =>
    /\ exc # "UnboundLocalError"
    /\ browser # "open"
    /\ context # "open"

\* C18: a browser exists only once the root domain has been determined, and
\* a lookup is pending or issued only after the observer returned its list,
\* with page, context and browser of the scan no longer open.
C18_StagesSequential ==
  /\ pc = "start" => browser = "None"
  /\ browser # "None" => root_domain # ""
  /\ (pc = "lookup" \/ lookups # << >>) =>
       /\ ObserverReturned
       /\ Range(domains) = third_party_domains
       /\ page # "open" /\ context # "open" /\ browser # "open"

\* C18 witness: the first of two lookups issued, the session closed
C18_Witness ==
  /\ pc = "lookup"
  /\ Len(domains) = 2
  /\ Len(lookups) = 1
  /\ browser = "closed"

\* a request the listener cannot process: a data: URL, or a URL on which
\* domain extraction raises
Unprocessable(r) == r.scheme = "data:" \/ ExtractRaises(r.host)

\* C19: the step that hands the listener a data: URL, or a URL whose domain
\* extraction raises, changes neither the accumulated set nor the course of
\* the scan, and at all times the set is what the processable requests seen
\* (earlier and later ones alike) yield.
C19_BadRequestChangesNothing ==
  /\ [][ (nreq' = nreq + 1 /\ seen' # seen
           /\ Unprocessable(CHOOSE r \in seen' \ seen : TRUE))
         => /\ third_party_domains' = third_party_domains
            /\ pc' = pc
            /\ exc' = exc
            /\ caught' = caught ]_vars
  /\ [](third_party_domains =
          { registered_domain(r.host) : r \in { q \in seen : ~Unprocessable(q) } }
          \ {root_domain, ""})

\* C19 witness: a data: URL, a URL whose extraction raises and a third-party
\* request were all handled in one session
C19_Witness ==
  /\ pc = "goto"
  /\ \E r \in seen : r.scheme = "data:"
  /\ \E r \in seen : r.scheme # "data:" /\ ExtractRaises(r.host)
  /\ third_party_domains # {}

\* a form value with no character other than whitespace
Blank(f) == \A k \in 1..Len(f) : f[k] \in Whitespace

\* x is f without its leading and trailing whitespace
StrippedOf(x, f) ==
  \E i, j \in 1..Len(f) :
    /\ i <= j
    /\ x = SubSeq(f, i, j)
    /\ f[i] \notin Whitespace /\ f[j] \notin Whitespace
    /\ \A k \in 1..Len(f) : (k < i \/ k > j) => f[k] \in Whitespace

\* a step in which index handled a request and changed what it left behind
IndexStep ==
  << last_request, error, started >>' # << last_request, error, started >>

\* C13: a POST whose url field is empty, missing or only whitespace starts no
\* task and leaves the validation message; any other POST starts exactly one
\* task, whose input is the field without surrounding whitespace, and the
\* task has not run when index returns; a GET starts none; nothing but a
\* non-blank POST ever starts a task, so a blank input is never scanned.
C13_BlankRejectedElseOneScan ==
  /\ [][ LET r == last_request'
             n == Len(started')
         IN  /\ started' # started =>
                  /\ r.method = "POST" /\ ~Blank(r.form)
                  /\ n = Len(started) + 1
                  /\ SubSeq(started', 1, n - 1) = started
                  /\ StrippedOf(started'[n], r.form)
                  /\ error' = "None"
                  /\ task'[n].pc = "start"
                  /\ task'[n].input = parse_input(started'[n])
                  /\ \A t \in Scans \ {n} : task'[t] = task[t]
             /\ (IndexStep /\ r.method = "POST" /\ Blank(r.form)) =>
                  /\ started' = started /\ task' = task
                  /\ error' = EmptyUrlError
             /\ (IndexStep /\ r.method = "POST" /\ ~Blank(r.form)) =>
                  started' # started
             /\ (IndexStep /\ r.method = "GET") =>
                  started' = started /\ task' = task /\ error' = "None"
       ]_vars
  /\ [](/\ \A k \in 1..Len(started) : ~Blank(started[k])
        /\ \A t \in Scans : task[t].pc # "idle" <=> t <= Len(started))

\* C13 witness: a POST with surrounding whitespace started the first task,
\* which has not run, and a whitespace-only POST was then refused
C13_Witness ==
  /\ started = << << "http://a.io" >> >>
  /\ task[1].pc = "start"
  /\ task[1].input = [prefix |-> "http://", host |-> "a.io"]
  /\ task[2].pc = "idle"
  /\ last_request = [method |-> "POST", form |-> << "\t", "\n" >>]
  /\ error = EmptyUrlError

\* C14: under every interleaving of two scans, the set of each scan holds
\* exactly the third-party domains of the requests of its own session, the
\* list returned to it lists exactly that set, and a step in which the
\* session of one scan issues a request leaves the set of the other alone.
C14_ScanLocalSets ==
  /\ [](\A t \in Scans :
          /\ task[t].tpd = ThirdPartyOf(task[t].seen, task[t].root)
          /\ Range(task[t].domains) \subseteq task[t].tpd
          /\ task[t].pc \in {"lookup", "emit"} =>
               Range(task[t].domains) = ThirdPartyOf(task[t].seen, task[t].root)
          /\ task[t].session # "none" => t <= Len(started))
  /\ [][ \A t, u \in Scans :
           (t # u /\ task'[t].seen # task[t].seen) =>
             /\ task'[u].tpd = task[u].tpd
             /\ task'[u].domains = task[u].domains ]_vars

\* C14 witness: the first scan was handed its list while the session of the
\* second, which saw other requests, is still navigating
C14_Witness ==
  /\ task[1].pc = "lookup" /\ task[1].session = "closed"
  /\ task[2].pc = "goto" /\ task[2].session = "open"
  /\ task[1].seen # {} /\ task[2].seen # {}
  /\ task[1].seen # task[2].seen
  /\ task[1].domains # << >>
  /\ task[2].tpd # {}
  /\ Range(task[1].domains) # task[2].tpd

\* the events of scan t in the shared stream, in stream order
EventsOf(t) ==
  LET Own(m) == m.scan = t
      own == SelectSeq(channel, Own)
  IN  [k \in 1..Len(own) |-> own[k].event]

\* C20: every event in the one stream has the four payload fields and no
\* scan identifier; however the events of two scans interleave, the events
\* of each scan in the stream are exactly the events it emitted, in the order
\* of its hits list, each once; a scan that ran its loop to the end has one
\* event in the stream for each of its hits.
C20_PerScanOrderOnSharedChannel ==
  /\ \A k \in 1..Len(channel) :
       DOMAIN channel[k].event = {"domain", "owner", "categories", "cookies"}
  /\ \A t \in Scans :
       /\ task[t].nsent <= Len(task[t].hits)
       /\ EventsOf(t) = [k \in 1..task[t].nsent |-> event_of(task[t].hits[k])]
       /\ task[t].ended = "returned" => task[t].nsent = Len(task[t].hits)

\* C20 witness: both scans returned after emitting two events each, and the
\* stream alternates between them
C20_Witness ==
  /\ task[1].ended = "returned" /\ task[2].ended = "returned"
  /\ Len(channel) = 4
  /\ channel[1].scan = 1 /\ channel[2].scan = 2
  /\ channel[3].scan = 1 /\ channel[4].scan = 2
  /\ channel[1].event # channel[3].event

====
